---- MODULE Spec2Model ----
(***************************************************************************)
(* Listmonk on Cloudflare Containers: the Worker (Edge Router, the default *)
(* export's fetch) and the Durable Object (Lifecycle Proxy,                *)
(* ListmonkContainer.fetch) of src/unnamed/part_002, as a state machine.   *)
(*                                                                         *)
(* Every request runs the Worker's handler; a request to a non-diagnostic  *)
(* path is delegated to the Durable Object, whose handler suspends at its  *)
(* three awaits (request.arrayBuffer, containerFetch, response.arrayBuffer)*)
(* so the handlers of concurrent requests interleave at those points.      *)
(* The platform (the Durable Object namespace, the container, the clock    *)
(* and the timers) is the environment.                                     *)
(***************************************************************************)
EXTENDS Integers, Sequences, FiniteSets, TLC

\* ------------------------------------------------------------------------
\* Bounds of the model
\* ------------------------------------------------------------------------

\* The clock advances in steps of TickMs up to MaxTime (milliseconds).
TickMs == 30000
MaxTime == 30000

\* The requests of one run; they are handled concurrently.
Reqs == {"r1", "r2"}

\* ------------------------------------------------------------------------
\* Program constants
\* ------------------------------------------------------------------------

VERSION == "2.1.0"

DURABLE_OBJECT_NAME == "listmonk-v11"

\* Mutant: the bad-gateway status mistyped.
HTTPWrongGateway ==
    [OK |-> 200, BAD_GATEWAY |-> 503, SERVICE_UNAVAILABLE |-> 503,
     GATEWAY_TIMEOUT |-> 504]

HTTP == [OK |-> 200, BAD_GATEWAY |-> 502, SERVICE_UNAVAILABLE |-> 503,
         GATEWAY_TIMEOUT |-> 504]

CONTAINER_TIMEOUT_MS == 30000

STANDARD_HEADERS ==
    << <<"X-Powered-By", "Cloudflare Containers">>,
       <<"X-App-Version", VERSION>> >>

\* substring(0, 12) of generateRequestId
REQUEST_ID_LENGTH == 12

defaultPort == 9000

\* workerEnv.APP_DOMAIN as deployed
APP_DOMAIN == "mail.megabyte.space"

\* ------------------------------------------------------------------------
\* Strings, headers, JSON
\* ------------------------------------------------------------------------

\* HTTP header names are case-insensitive: the Headers class stores them in
\* lower case.
LowerName(name) ==
    CASE name = "Content-Type" -> "content-type"
      [] name = "X-Request-Id" -> "x-request-id"
      [] name = "X-Powered-By" -> "x-powered-by"
      [] name = "X-App-Version" -> "x-app-version"
      [] name = "X-Container-Proxied" -> "x-container-proxied"
      [] name = "X-Container-Override" -> "x-container-override"
      [] name = "X-Content-Type-Options" -> "x-content-type-options"
      [] name = "X-Frame-Options" -> "x-frame-options"
      [] name = "Referrer-Policy" -> "referrer-policy"
      [] name = "Cache-Control" -> "cache-control"
      [] name = "Location" -> "location"
      [] name = "ETag" -> "etag"
      [] OTHER -> name

NoHeaders == [n \in {} |-> ""]

\* Mutant: a header the response already has keeps its value.
HeadersSetKeep(h, name, value) ==
    [n \in DOMAIN h \cup {LowerName(name)} |->
        IF n \in DOMAIN h THEN h[n] ELSE value]

\* Headers.prototype.set: the value replaces any value the name had.
HeadersSet(h, name, value) ==
    [n \in DOMAIN h \cup {LowerName(name)} |->
        IF n = LowerName(name) THEN value ELSE h[n]]

\* new Headers(init) / the headers member of ResponseInit, from an object
\* literal: its entries in order, a later entry replacing an earlier one.
RECURSIVE HeadersFrom(_)
HeadersFrom(pairs) ==
    IF pairs = <<>> THEN NoHeaders
    ELSE LET n == Len(pairs)
         IN HeadersSet(HeadersFrom(SubSeq(pairs, 1, n - 1)),
                       pairs[n][1], pairs[n][2])

HasHeader(h, name) == LowerName(name) \in DOMAIN h

GetHeader(h, name) == h[LowerName(name)]

\* A JSON string value.
JStr(v) == [t |-> "string", v |-> v]

\* new Date().toISOString() at clock value t.
ToISOString(t) == <<"iso8601", t>>

\* ------------------------------------------------------------------------
\* Errors (JavaScript exceptions)
\* ------------------------------------------------------------------------

\* cls is the constructor. A thrown value that is no Error has cls "Thrown",
\* no message, and value is what String(value) gives.
AbortError ==
    [cls |-> "DOMException", name |-> "AbortError",
     message |-> "The operation was aborted", value |-> ""]

\* Mutant: every Error object is taken for the abort.
IsAbortErrorAnyError(error) == error.cls # "Thrown"

IsAbortError(error) == error.cls = "DOMException" /\ error.name = "AbortError"

InstanceOfError(error) == error.cls # "Thrown"

\* Mutant: error.message read whatever was thrown.
MessageOfMessageOnly(error) == error.message

\* error instanceof Error ? error.message : String(error)
MessageOf(error) ==
    IF InstanceOfError(error) THEN error.message ELSE error.value

\* ------------------------------------------------------------------------
\* Responses
\* ------------------------------------------------------------------------

NoResponse == [kind |-> "none"]

\* An uncaught exception leaves the handler: the platform answers the client
\* itself, with no response of this program.
UncaughtFault(error) == [kind |-> "fault", error |-> error]

NullBodyStatus == {101, 204, 205, 304}

\* new Response(body, {status, statusText, headers}) as the Fetch standard
\* defines it: a status outside 200..599 is a RangeError, a body that is not
\* null with a null-body status is a TypeError.
NewResponse(body, status, statusText, headers) ==
    IF status < 200 \/ status > 599
    THEN [ok |-> FALSE,
          error |-> [cls |-> "RangeError", name |-> "RangeError", value |-> "",
                     message |-> "Responses may only be constructed with status codes in the range 200 to 599, inclusive."]]
    ELSE IF body.kind # "null" /\ status \in NullBodyStatus
    THEN [ok |-> FALSE,
          error |-> [cls |-> "TypeError", name |-> "TypeError", value |-> "",
                     message |-> "Response with null body status (101, 204, 205, or 304) cannot have a body."]]
    ELSE [ok |-> TRUE,
          response |-> [kind |-> "response", status |-> status,
                        statusText |-> statusText, headers |-> headers,
                        body |-> body]]

\* ------------------------------------------------------------------------
\* Utilities of the program
\* ------------------------------------------------------------------------

\* crypto.randomUUID(): 8-4-4-4-12 hexadecimal digits, version 4. The model
\* draws from a few of them: x fills the first twelve digits, z the rest.
MkUUID(x, z) ==
    <<x, x, x, x, x, x, x, x, "-", x, x, x, x, "-", "4", z, z, z, "-",
      "8", z, z, z, "-", z, z, z, z, z, z, z, z, z, z, z, z>>

UUIDs == {MkUUID("a", "0"), MkUUID("a", "1"), MkUUID("b", "0")}

\* String.prototype.replace(/-/g, "")
StripDashes(s) == SelectSeq(s, LAMBDA c : c # "-")

\* String.prototype.substring(0, n)
Substring0(s, n) == SubSeq(s, 1, IF n < Len(s) THEN n ELSE Len(s))

generateRequestId(uuid) == Substring0(StripDashes(uuid), REQUEST_ID_LENGTH)

\* Mutant: the body names a shortened identifier.
buildErrorResponseShortId(message, code, status, requestId, t) ==
    LET body == [error |-> JStr(message),
                 code |-> JStr(code),
                 request_id |-> JStr(Substring0(requestId, 8)),
                 timestamp |-> JStr(ToISOString(t)),
                 version |-> JStr(VERSION)]
    IN NewResponse([kind |-> "json", value |-> body], status, "",
                   HeadersFrom(<< <<"Content-Type", "application/json">>,
                                  <<"X-Request-Id", requestId>> >>
                               \o STANDARD_HEADERS)).response

\* buildErrorResponse at clock value t (new Date()).
buildErrorResponse(message, code, status, requestId, t) ==
    LET body == [error |-> JStr(message),
                 code |-> JStr(code),
                 request_id |-> JStr(requestId),
                 timestamp |-> JStr(ToISOString(t)),
                 version |-> JStr(VERSION)]
    IN NewResponse([kind |-> "json", value |-> body], status, "",
                   HeadersFrom(<< <<"Content-Type", "application/json">>,
                                  <<"X-Request-Id", requestId>> >>
                               \o STANDARD_HEADERS)).response

RECURSIVE SetAll(_, _)
SetAll(h, pairs) ==
    IF pairs = <<>> THEN h
    ELSE SetAll(HeadersSet(h, pairs[1][1], pairs[1][2]), Tail(pairs))

\* Mutant: the correlation header is not set on a relayed response.
augmentResponseNoRequestId(response, requestId) ==
    LET h2 == HeadersSet(response.headers, "X-Container-Proxied", "true")
        h3 == SetAll(h2, STANDARD_HEADERS)
        h4 == HeadersSet(h3, "X-Content-Type-Options", "nosniff")
        h5 == HeadersSet(h4, "X-Frame-Options", "SAMEORIGIN")
        h6 == HeadersSet(h5, "Referrer-Policy",
                         "strict-origin-when-cross-origin")
    IN NewResponse(response.body, response.status, response.statusText, h6)

\* Mutant: the headers are built afresh, not copied from the response.
augmentResponseFreshHeaders(response, requestId) ==
    LET h1 == HeadersSet(NoHeaders, "X-Request-Id", requestId)
        h2 == HeadersSet(h1, "X-Container-Proxied", "true")
        h3 == SetAll(h2, STANDARD_HEADERS)
        h4 == HeadersSet(h3, "X-Content-Type-Options", "nosniff")
        h5 == HeadersSet(h4, "X-Frame-Options", "SAMEORIGIN")
        h6 == HeadersSet(h5, "Referrer-Policy",
                         "strict-origin-when-cross-origin")
    IN NewResponse(response.body, response.status, response.statusText, h6)

\* augmentResponse: a new Response over response.body (a stream, never null
\* here) with the tracing and security headers set.
augmentResponse(response, requestId) ==
    LET h1 == HeadersSet(response.headers, "X-Request-Id", requestId)
        h2 == HeadersSet(h1, "X-Container-Proxied", "true")
        h3 == SetAll(h2, STANDARD_HEADERS)
        h4 == HeadersSet(h3, "X-Content-Type-Options", "nosniff")
        h5 == HeadersSet(h4, "X-Frame-Options", "SAMEORIGIN")
        h6 == HeadersSet(h5, "Referrer-Policy",
                         "strict-origin-when-cross-origin")
    IN NewResponse(response.body, response.status, response.statusText, h6)

\* new URL(url).pathname
Pathname(url) == url.pathname

\* ------------------------------------------------------------------------
\* Inputs and the environment's answers
\* ------------------------------------------------------------------------

NullBody == [kind |-> "null"]

Bytes(b) == [kind |-> "bytes", bytes |-> b]

\* request.body, a ReadableStream that will deliver the bytes b.
Stream(b) == [kind |-> "stream", bytes |-> b]

\* Mutant: the stream is handed on unread.
ArrayBufferOfUnread(body) == body

\* What request.arrayBuffer() resolves with: all bytes of the stream, in
\* memory.
ArrayBufferOf(body) == Bytes(body.bytes)

\* Object.fromEntries(headers.entries()): one property per header name.
ObjectFromEntries(h) == [n \in DOMAIN h |-> h[n]]

MkRequest(method, pathname, body) ==
    [method |-> method,
     url |-> [origin |-> "https://mail.megabyte.space",
              pathname |-> pathname, search |-> ""],
     headers |-> HeadersFrom(<< <<"accept", "*/*">> >>),
     body |-> body]

Pathnames == {"/__health", "/__version", "/"}

\* A GET carries no body (request.body is null); a POST carries one, and
\* here a query string too.
Requests ==
    {MkRequest("GET", p, NullBody) : p \in Pathnames}
    \cup {[MkRequest("POST", p, Stream(<<7, 8>>))
              EXCEPT !.url.search = "?page=2"] : p \in Pathnames}

NoRequest == MkRequest("", "", NullBody)

MkUpstream(status, statusText, headers, bytes) ==
    [kind |-> "response", status |-> status, statusText |-> statusText,
     headers |-> HeadersFrom(headers), body |-> Bytes(bytes)]

\* Headers of an upstream (or of a reverse proxy in front of it) that sets
\* tracing and security headers of its own.
UpstreamOwnHeaders ==
    << <<"Content-Type", "text/html">>,
       <<"X-Request-Id", <<"u", "p", "-", "7", "f", "3", "a">> >>,
       <<"X-Powered-By", "listmonk">>,
       <<"X-Frame-Options", "DENY">>,
       <<"X-Content-Type-Options", "nosniff">>,
       <<"Referrer-Policy", "no-referrer">> >>

\* What Listmonk can answer. The body of a 204 or a 304 is empty; /admin/
\* redirects to /admin/login.
UpstreamResponses ==
    {MkUpstream(200, "OK", << <<"Content-Type", "text/html">> >>, <<1, 2>>),
     MkUpstream(200, "OK", UpstreamOwnHeaders, <<4>>),
     MkUpstream(204, "No Content", <<>>, <<>>),
     MkUpstream(302, "Found", << <<"Location", "/admin/login">> >>, <<>>),
     MkUpstream(304, "Not Modified", << <<"ETag", "v1">> >>, <<>>),
     MkUpstream(404, "Not Found", << <<"Content-Type", "text/plain">> >>, <<3>>),
     MkUpstream(500, "Internal Server Error", <<>>, <<>>)}

MkError(cls, message) ==
    [cls |-> cls, name |-> cls, message |-> message, value |-> ""]

MkThrown(value) ==
    [cls |-> "Thrown", name |-> "", message |-> "", value |-> value]

\* request.arrayBuffer() rejecting: the client went away mid-upload.
BodyReadErrors == {MkError("TypeError", "Network connection lost.")}

\* containerFetch rejecting, by the state of the container.
UpstreamErrors(state) ==
    IF state = "stopped"
    THEN {MkError("Error", "The container is not running")}
    ELSE {MkThrown("ECONNRESET")}

\* response.arrayBuffer() rejecting: the connection broke mid-body.
DrainErrors == {MkError("TypeError", "Network connection lost.")}

\* env.LISTMONK.idFromName / get throwing, and stub.fetch rejecting.
ResolveError == MkError("TypeError", "Cannot read properties of undefined (reading 'idFromName')")

StubError == MkError("Error", "Durable Object reset because its code was updated.")

\* ------------------------------------------------------------------------
\* The two catch handlers and the extent of their try blocks
\* ------------------------------------------------------------------------

\* Mutant: every line is written with console.log.
LogLineConsoleLog(level, rid, method, path, event, status, duration, message) ==
    [level |-> "log", rid |-> rid, method |-> method, path |-> path,
     event |-> event, status |-> status, duration |-> duration,
     message |-> message]

\* console.log / console.error: one line, its parts kept apart.
LogLine(level, rid, method, path, event, status, duration, message) ==
    [level |-> level, rid |-> rid, method |-> method, path |-> path,
     event |-> event, status |-> status, duration |-> duration,
     message |-> message]

\* Mutant: response.arrayBuffer() awaited outside the try block.
ContainerTryCoversNoDrain(point) ==
    point \in {"readBody", "upstreamCall", "timeout", "construct"}

\* The failure points inside ListmonkContainer.fetch's try block.
ContainerTryCovers(point) ==
    point \in {"readBody", "upstreamCall", "timeout", "drain", "construct"}

\* The failure points inside the Worker's try block.
RouterTryCovers(point) == point \in {"resolve", "stubFetch"}

\* Mutant: the catch block does not tell the timeout from other failures.
ContainerCatchNoTimeout(error, requestId, method, pathname, duration, t) ==
    LET message == MessageOf(error)
    IN [log |-> LogLine("error", requestId, method, pathname, "ERROR",
                        0, duration, <<message>>),
        response |-> buildErrorResponse(<<"Container error: ", message>>,
                         "CONTAINER_FETCH_ERROR", HTTP.BAD_GATEWAY,
                         requestId, t)]

\* ListmonkContainer.fetch's catch block.
ContainerCatch(error, requestId, method, pathname, duration, t) ==
    IF IsAbortError(error)
    THEN [log |-> LogLine("error", requestId, method, pathname, "TIMEOUT",
                          0, duration, <<>>),
          response |-> buildErrorResponse(<<"Container request timed out">>,
                           "CONTAINER_TIMEOUT", HTTP.GATEWAY_TIMEOUT,
                           requestId, t)]
    ELSE LET message == MessageOf(error)
         IN [log |-> LogLine("error", requestId, method, pathname, "ERROR",
                             0, duration, <<message>>),
             response |-> buildErrorResponse(<<"Container error: ", message>>,
                              "CONTAINER_FETCH_ERROR", HTTP.BAD_GATEWAY,
                              requestId, t)]

\* Mutant: the Worker answers a routing failure as a bad gateway.
RouterCatchBadGateway(error, requestId, t) ==
    LET message == MessageOf(error)
    IN [log |-> LogLine("error", requestId, "", "", "ROUTING", 0, 0,
                        <<message>>),
        response |-> buildErrorResponse(
                         <<"Service temporarily unavailable: ", message>>,
                         "DURABLE_OBJECT_ERROR", HTTP.BAD_GATEWAY,
                         requestId, t)]

\* The Worker's catch block.
RouterCatch(error, requestId, t) ==
    LET message == MessageOf(error)
    IN [log |-> LogLine("error", requestId, "", "", "ROUTING", 0, 0,
                        <<message>>),
        response |-> buildErrorResponse(
                         <<"Service temporarily unavailable: ", message>>,
                         "DURABLE_OBJECT_ERROR", HTTP.SERVICE_UNAVAILABLE,
                         requestId, t)]

\* DurableObjectNamespace.idFromName: the same name gives the same id.
idFromName(name) == [name |-> name]

\* Mutant: one Durable Object per request method.
StubNamePerMethod(request) == <<DURABLE_OBJECT_NAME, request.method>>

\* The name default.fetch resolves the stub from, whatever the request.
StubName(request) == DURABLE_OBJECT_NAME

\* Mutant: the version route is missing.
RouterDispatchHealthOnly(pathname) ==
    IF pathname = "/__health" THEN "health" ELSE "proxy"

\* The Worker's dispatch on the path.
RouterDispatch(pathname) ==
    IF pathname = "/__health" THEN "health"
    ELSE IF pathname = "/__version" THEN "version"
    ELSE "proxy"

\* Mutant: the health body echoes the request's identifier.
healthResponseWithRequestId(requestId, t) ==
    LET health == [status |-> JStr("healthy"),
                   version |-> JStr(VERSION),
                   container |-> JStr("listmonk"),
                   database |-> JStr("supabase-postgresql"),
                   domain |-> JStr(APP_DOMAIN),
                   uptime |-> JStr(requestId),
                   timestamp |-> JStr(ToISOString(t))]
    IN NewResponse([kind |-> "json", value |-> health], HTTP.OK, "",
                   HeadersFrom(<< <<"Content-Type", "application/json">>,
                                  <<"X-Request-Id", requestId>> >>
                               \o STANDARD_HEADERS
                               \o << <<"Cache-Control",
                                       "no-cache, no-store, must-revalidate">> >>)
                  ).response

healthResponse(requestId, t) ==
    LET health == [status |-> JStr("healthy"),
                   version |-> JStr(VERSION),
                   container |-> JStr("listmonk"),
                   database |-> JStr("supabase-postgresql"),
                   domain |-> JStr(APP_DOMAIN),
                   uptime |-> JStr("running"),
                   timestamp |-> JStr(ToISOString(t))]
    IN NewResponse([kind |-> "json", value |-> health], HTTP.OK, "",
                   HeadersFrom(<< <<"Content-Type", "application/json">>,
                                  <<"X-Request-Id", requestId>> >>
                               \o STANDARD_HEADERS
                               \o << <<"Cache-Control",
                                       "no-cache, no-store, must-revalidate">> >>)
                  ).response

versionResponse(requestId) ==
    LET version == [version |-> JStr(VERSION),
                    container |-> JStr("listmonk/listmonk:latest"),
                    runtime |-> JStr("cloudflare-containers"),
                    database |-> JStr("supabase-postgresql")]
    IN NewResponse([kind |-> "json", value |-> version], HTTP.OK, "",
                   HeadersFrom(<< <<"Content-Type", "application/json">>,
                                  <<"X-Request-Id", requestId>> >>
                               \o STANDARD_HEADERS)).response

\* ------------------------------------------------------------------------
\* Configuration: the envVars field of ListmonkContainer
\* ------------------------------------------------------------------------

\* The configuration the README documents: its defaults, and sample values
\* where it has none.
DeployedConfig ==
    [APP_DOMAIN |-> APP_DOMAIN,
     DB_HOST |-> "db.example.supabase.co",
     DB_PORT |-> "5432",
     DB_USER |-> "postgres",
     DB_PASSWORD |-> "db-secret",
     DB_NAME |-> "postgres",
     DB_SSL_MODE |-> "require",
     ADMIN_USER |-> "admin",
     ADMIN_PASSWORD |-> "admin-secret"]

\* Configurations: every variable either as deployed or changed, the
\* pass-through ones to the empty string, the domain to another domain.
Configs ==
    [APP_DOMAIN : {DeployedConfig.APP_DOMAIN, "news.example.org"},
     DB_HOST : {DeployedConfig.DB_HOST, ""},
     DB_PORT : {DeployedConfig.DB_PORT, ""},
     DB_USER : {DeployedConfig.DB_USER, ""},
     DB_PASSWORD : {DeployedConfig.DB_PASSWORD, ""},
     DB_NAME : {DeployedConfig.DB_NAME, ""},
     DB_SSL_MODE : {DeployedConfig.DB_SSL_MODE, ""},
     ADMIN_USER : {"root", ""},
     ADMIN_PASSWORD : {DeployedConfig.ADMIN_PASSWORD, ""}]

\* a || b on strings: the empty string is falsy.
OrElse(a, b) == IF a = "" THEN b ELSE a

\* A template literal or a literal string, as its parts in order.
Template(prefix, value) == <<prefix, value>>

\* ListmonkContainer.envVars, the class field initialiser, over env e.
envVars(e) ==
    [LISTMONK_app__address |-> "0.0.0.0:9000",
     LISTMONK_app__root_url |-> Template("https://", e.APP_DOMAIN),
     LISTMONK_db__host |-> e.DB_HOST,
     LISTMONK_db__port |-> e.DB_PORT,
     LISTMONK_db__user |-> e.DB_USER,
     LISTMONK_db__password |-> e.DB_PASSWORD,
     LISTMONK_db__database |-> e.DB_NAME,
     LISTMONK_db__ssl_mode |-> e.DB_SSL_MODE,
     LISTMONK_db__max_open |-> "25",
     LISTMONK_db__max_idle |-> "25",
     LISTMONK_db__max_lifetime |-> "300s",
     LISTMONK_ADMIN_USER |-> OrElse(e.ADMIN_USER, "admin"),
     LISTMONK_ADMIN_PASSWORD |-> OrElse(e.ADMIN_PASSWORD, "admin"),
     LISTMONK_ADMIN_API_USER |-> "api_admin"]

\* envVars of the second implementation: the root URL is a literal.
LegacyEnvVars(e) ==
    [LISTMONK_app__address |-> "0.0.0.0:9000",
     LISTMONK_app__root_url |-> Template("https://", "mail.megabyte.space"),
     LISTMONK_db__host |-> e.DB_HOST,
     LISTMONK_db__port |-> e.DB_PORT,
     LISTMONK_db__user |-> e.DB_USER,
     LISTMONK_db__password |-> e.DB_PASSWORD,
     LISTMONK_db__database |-> e.DB_NAME,
     LISTMONK_db__ssl_mode |-> e.DB_SSL_MODE,
     LISTMONK_db__max_open |-> "25",
     LISTMONK_db__max_idle |-> "25",
     LISTMONK_db__max_lifetime |-> "300s",
     LISTMONK_ADMIN_USER |-> OrElse(e.ADMIN_USER, "admin"),
     LISTMONK_ADMIN_PASSWORD |-> OrElse(e.ADMIN_PASSWORD, "admin"),
     LISTMONK_ADMIN_API_USER |-> "api_admin"]

\* ------------------------------------------------------------------------
\* The container's boot script: the CMD of the Dockerfile, one AND-OR list
\* run by `sh -c`.
\* ------------------------------------------------------------------------

Cmd(op, name) == [op |-> op, cmd |-> name]

\* src/Dockerfile: the UPDATE statement names the URL literally.
Dockerfile ==
    [cmds |-> <<Cmd("", "apk"), Cmd("&&", "install"), Cmd("||", "true"),
                Cmd("&&", "printf"), Cmd("&&", "psql"),
                Cmd("&&", "listmonk")>>,
     url |-> [literal |-> Template("https://", "mail.megabyte.space"),
              variable |-> ""]]

\* The documented Dockerfile (src/unnamed/part_004): set -e, progress
\* lines, the URL taken from ${LISTMONK_app__root_url}, exec.
DocumentedDockerfile ==
    [cmds |-> <<Cmd("", "set"), Cmd("&&", "echo"), Cmd("&&", "apk"),
                Cmd("&&", "echo"), Cmd("&&", "install"), Cmd("||", "true"),
                Cmd("&&", "echo"), Cmd("&&", "printf"), Cmd("&&", "psql"),
                Cmd("&&", "echo"), Cmd("&&", "listmonk")>>,
     url |-> [literal |-> <<>>, variable |-> "LISTMONK_app__root_url"]]

Scripts == {Dockerfile, DocumentedDockerfile}

NoFile == [from |-> "none", url |-> <<>>]

\* The database outlives the container: the schema may be installed, and
\* the settings table holds app.root_url.
EmptyDatabase == [schema |-> FALSE, root_url |-> NoFile]

NotBooted ==
    [phase |-> "off", script |-> Dockerfile, pc |-> 0,
     status |-> 0, psql |-> FALSE, fixSql |-> NoFile, ran |-> <<>>,
     install |-> "notRun", updated |-> FALSE, db |-> EmptyDatabase]

\* The deployments the boot is followed under: APP_DOMAIN varies.
BootConfigs ==
    {[DeployedConfig EXCEPT !.APP_DOMAIN = d] :
        d \in {DeployedConfig.APP_DOMAIN, "news.example.org"}}

\* The shell's AND-OR list: the first command runs; a command after && runs
\* if the status so far is 0, a command after || if it is not.
Runs(b) ==
    LET c == b.script.cmds[b.pc]
    IN \/ c.op = ""
       \/ c.op = "&&" /\ b.status = 0
       \/ c.op = "||" /\ b.status # 0

AtCommand(b, names) ==
    /\ b.phase = "script"
    /\ b.pc <= Len(b.script.cmds)
    /\ b.script.cmds[b.pc].cmd \in names

\* The text the script's printf writes for the URL: the literal, or the
\* value of the variable in the container's environment.
ExpandUrl(url, env) ==
    IF url.variable = "" THEN url.literal ELSE env[url.variable]

\* ------------------------------------------------------------------------
\* State
\* ------------------------------------------------------------------------

VARIABLES
    now,        \* the clock, Date.now(), in milliseconds
    upstream,   \* the container: "running", "stopped" or "failing"
    namespace,  \* env.LISTMONK, as deployed: "ok", "throws" (the binding
                \* is missing: idFromName/get throw) or "unreachable"
                \* (stub.fetch rejects)
    pc,         \* where each request's handlers stand
    req,        \* the request
    wid,        \* the Worker's requestId
    did,        \* the Durable Object's requestId
    startTime,  \* the Durable Object's startTime
    timer,      \* the setTimeout handle: "unset", "armed", "fired", "cleared"
    deadline,   \* when the armed timer is due
    aborted,    \* controller.signal.aborted
    upResp,     \* the upstream's response, once containerFetch resolved
    received,   \* history: the upstream response whose body was drained
    resp,       \* what the client received
    served,     \* which layer produced resp, and as what
    logs,       \* the console lines of the request
    calls,      \* how often idFromName, stub.fetch and containerFetch ran
    sent,       \* history: the arguments of the request's containerFetch call
    config,     \* env: the configured variables and secrets of the deployment
    injected,   \* the envVars of the ListmonkContainer object, once built
    boot,       \* the container's boot script, its shell and the database
    issued,     \* history: the UUID the request's latest requestId came from
    target,     \* history: the Durable Object id the request's stub addresses
    objects,    \* the ids whose Durable Object the namespace has created
    fault       \* the failure the request met, if any

vars == <<now, upstream, namespace, pc, req, wid, did, startTime, timer,
          deadline, aborted, upResp, received, resp, served, logs, calls,
          sent, config, injected, boot, issued, target, objects, fault>>

NoId == <<>>

NoFault == [point |-> "none", layer |-> "none", error |-> MkError("", "")]

NotServed == [by |-> "none", as |-> "none"]

NoTarget == [name |-> ""]

NoUUID == <<>>

\* containerFetch has not been called for the request.
NotCalled == [port |-> 0]

\* No ListmonkContainer object has been constructed yet.
NoEnvVars == [impl |-> "none"]

\* The envVars field of a constructed object, and which class built it.
Constructed(impl, fields) == [impl |-> impl, vars |-> fields]

\* The handlers' variables before any request.
InitHandlers ==
    /\ now = 0
    /\ upstream \in {"running", "stopped", "failing"}
    /\ namespace \in {"ok", "throws", "unreachable"}
    /\ pc = [r \in Reqs |-> "idle"]
    /\ req = [r \in Reqs |-> NoRequest]
    /\ wid = [r \in Reqs |-> NoId]
    /\ did = [r \in Reqs |-> NoId]
    /\ startTime = [r \in Reqs |-> 0]
    /\ timer = [r \in Reqs |-> "unset"]
    /\ deadline = [r \in Reqs |-> 0]
    /\ aborted = [r \in Reqs |-> FALSE]
    /\ upResp = [r \in Reqs |-> NoResponse]
    /\ received = [r \in Reqs |-> NoResponse]
    /\ resp = [r \in Reqs |-> NoResponse]
    /\ served = [r \in Reqs |-> NotServed]
    /\ logs = [r \in Reqs |-> <<>>]
    /\ calls = [r \in Reqs |-> [idFromName |-> 0, stubFetch |-> 0,
                                containerFetch |-> 0]]
    /\ issued = [r \in Reqs |-> NoUUID]
    /\ target = [r \in Reqs |-> NoTarget]
    /\ objects = {}
    /\ fault = [r \in Reqs |-> NoFault]
    /\ sent = [r \in Reqs |-> NotCalled]
    /\ injected = NoEnvVars
    /\ boot = NotBooted

Init ==
    /\ InitHandlers
    /\ config = DeployedConfig

\* ------------------------------------------------------------------------
\* The Worker: default.fetch
\* ------------------------------------------------------------------------

\* The client receives the response; the request's handlers are over and
\* their locals (requestId, startTime) are gone.
Reply(r, response, by, as, lines) ==
    /\ resp' = [resp EXCEPT ![r] = response]
    /\ served' = [served EXCEPT ![r] = [by |-> by, as |-> as]]
    /\ logs' = [logs EXCEPT ![r] = logs[r] \o lines]
    /\ pc' = [pc EXCEPT ![r] = "done"]
    /\ wid' = [wid EXCEPT ![r] = NoId]
    /\ did' = [did EXCEPT ![r] = NoId]
    /\ startTime' = [startTime EXCEPT ![r] = 0]

\* An exception reaches the Worker's try block at `point` (or leaves the
\* Durable Object's fetch, which rejects stub.fetch): the catch block answers
\* if the try block covers the point, else the exception is uncaught.
RouterThrow(r, point, error, requestId, lines) ==
    IF RouterTryCovers(point)
    THEN LET c == RouterCatch(error, requestId, now)
         IN Reply(r, c.response, "router", "error", lines \o <<c.log>>)
    ELSE Reply(r, UncaughtFault(error), "platform", "fault", lines)

\* default.fetch up to its first await: the diagnostic paths are answered at
\* once, any other path resolves the stub and calls stub.fetch.
RouterFetch(r) ==
    /\ pc[r] = "idle"
    /\ \E request \in Requests, uuid \in UUIDs :
        LET requestId == generateRequestId(uuid)
            route == RouterDispatch(Pathname(request.url))
        IN /\ req' = [req EXCEPT ![r] = request]
           /\ issued' = [issued EXCEPT ![r] = uuid]
           /\ IF route = "health"
              THEN /\ Reply(r, healthResponse(requestId, now), "router",
                            "diagnostic", <<>>)
                   /\ UNCHANGED <<calls, fault, target>>
              ELSE IF route = "version"
              THEN /\ Reply(r, versionResponse(requestId), "router",
                            "diagnostic", <<>>)
                   /\ UNCHANGED <<calls, fault, target>>
              ELSE IF namespace = "throws"
              THEN /\ calls' = [calls EXCEPT ![r].idFromName = @ + 1]
                   /\ fault' = [fault EXCEPT ![r] =
                                   [point |-> "resolve", layer |-> "router",
                                    error |-> ResolveError]]
                   /\ RouterThrow(r, "resolve", ResolveError, requestId, <<>>)
                   /\ UNCHANGED target
              ELSE /\ calls' = [calls EXCEPT ![r].idFromName = @ + 1,
                                             ![r].stubFetch = @ + 1]
                   /\ target' = [target EXCEPT ![r] =
                                     idFromName(StubName(request))]
                   /\ wid' = [wid EXCEPT ![r] = requestId]
                   /\ pc' = [pc EXCEPT ![r] = "delegated"]
                   /\ UNCHANGED <<resp, served, logs, fault, did, startTime>>
    /\ UNCHANGED <<sent, config, injected, boot, objects, received, now, upstream,
                   namespace, timer, deadline, aborted, upResp>>

\* stub.fetch rejects: the Durable Object could not be reached.
StubReject(r) ==
    /\ pc[r] = "delegated"
    /\ namespace = "unreachable"
    /\ fault' = [fault EXCEPT ![r] = [point |-> "stubFetch",
                                      layer |-> "router",
                                      error |-> StubError]]
    /\ RouterThrow(r, "stubFetch", StubError, wid[r], <<>>)
    /\ UNCHANGED <<sent, config, injected, boot, issued, target, objects, received, now, upstream, namespace, req, timer, deadline, aborted,
                   upResp, calls>>

\* ------------------------------------------------------------------------
\* The Durable Object: ListmonkContainer.fetch
\* ------------------------------------------------------------------------

\* An exception is thrown at `point` of ListmonkContainer.fetch: the catch
\* block answers if the try block covers the point, else the exception
\* leaves the handler and stub.fetch rejects in the Worker. Either way the
\* try block's locals (response) are out of scope.
ContainerThrow(r, point, error, lines) ==
    /\ upResp' = [upResp EXCEPT ![r] = NoResponse]
    /\ fault' = [fault EXCEPT ![r] = [point |-> point, layer |-> "proxy",
                                      error |-> error]]
    /\ IF ContainerTryCovers(point)
       THEN LET c == ContainerCatch(error, did[r], req[r].method,
                                    Pathname(req[r].url),
                                    now - startTime[r], now)
            IN Reply(r, c.response, "proxy", "error", lines \o <<c.log>>)
       ELSE RouterThrow(r, "stubFetch", error, wid[r], lines)

\* bodyContent: null, or the buffered body once request.arrayBuffer()
\* resolved.
bodyContent(request) ==
    IF request.body.kind = "null" THEN NullBody
    ELSE ArrayBufferOf(request.body)

\* The arguments of this.containerFetch(url, init, this.defaultPort).
ContainerFetchArgs(request, body, signal) ==
    [url |-> request.url, method |-> request.method,
     headers |-> ObjectFromEntries(request.headers), body |-> body,
     redirect |-> "manual", signal |-> signal, port |-> defaultPort]

\* new AbortController, setTimeout(abort, CONTAINER_TIMEOUT_MS) and the call
\* of this.containerFetch, which the handler then awaits.
ArmAndCall(r) ==
    /\ sent' = [sent EXCEPT ![r] =
                   ContainerFetchArgs(req[r], bodyContent(req[r]), TRUE)]
    /\ timer' = [timer EXCEPT ![r] = "armed"]
    /\ deadline' = [deadline EXCEPT ![r] = now + CONTAINER_TIMEOUT_MS]
    /\ calls' = [calls EXCEPT ![r].containerFetch = @ + 1]
    /\ pc' = [pc EXCEPT ![r] = "awaitFetch"]

\* Mutant: the finally block does not clear the timer.
ClearTimeoutForgotten(r) ==
    UNCHANGED <<timer, deadline>>

\* clearTimeout(timeout) in the finally block.
ClearTimeout(r) ==
    /\ timer' = [timer EXCEPT ![r] = IF @ = "armed" THEN "cleared" ELSE @]
    /\ deadline' = [deadline EXCEPT ![r] = 0]

\* stub.fetch reaches the Durable Object: fetch runs up to its first await,
\* request.arrayBuffer() when the request has a body, else containerFetch.
ContainerFetchEnter(r) ==
    /\ pc[r] = "delegated"
    /\ namespace # "unreachable"
    /\ \E uuid \in UUIDs :
        LET requestId == generateRequestId(uuid)
        IN /\ did' = [did EXCEPT ![r] = requestId]
           /\ issued' = [issued EXCEPT ![r] = uuid]
           /\ logs' = [logs EXCEPT ![r] =
                          Append(@, LogLine("log", requestId, req[r].method,
                                            Pathname(req[r].url), "start",
                                            0, 0, <<>>))]
    /\ startTime' = [startTime EXCEPT ![r] = now]
    /\ IF req[r].body.kind # "null"
       THEN /\ pc' = [pc EXCEPT ![r] = "readBody"]
            /\ UNCHANGED <<timer, deadline, calls, sent>>
       ELSE ArmAndCall(r)
    /\ objects' = objects \cup {target[r]}
    /\ injected' = IF target[r] \in objects THEN injected
                   ELSE Constructed("first", envVars(config))
    /\ UNCHANGED <<config, boot, target, received, now, upstream, namespace, req,
                   wid, aborted, upResp, resp, served, fault>>

\* request.arrayBuffer() resolves: the body is buffered, the timer is armed
\* and containerFetch is called.
RequestBodyRead(r) ==
    /\ pc[r] = "readBody"
    /\ ArmAndCall(r)
    /\ UNCHANGED <<config, injected, boot, issued, target, objects, received, now,
                   upstream, namespace, req, wid, did, startTime, aborted,
                   upResp, resp, served, logs, fault>>

\* request.arrayBuffer() rejects.
RequestBodyFail(r) ==
    /\ pc[r] = "readBody"
    /\ \E error \in BodyReadErrors : ContainerThrow(r, "readBody", error, <<>>)
    /\ UNCHANGED <<sent, config, injected, boot, issued, target, objects, received, now, upstream, namespace, req, timer, deadline, aborted,
                   calls>>

\* containerFetch resolves with the upstream's status and headers.
UpstreamRespond(r) ==
    /\ pc[r] = "awaitFetch"
    /\ upstream = "running"
    /\ \E u \in UpstreamResponses : upResp' = [upResp EXCEPT ![r] = u]
    /\ ClearTimeout(r)
    /\ pc' = [pc EXCEPT ![r] = "drain"]
    /\ UNCHANGED <<sent, config, injected, boot, issued, target, objects, received, now, upstream, namespace, req, wid, did, startTime,
                   aborted, resp, served, logs, calls, fault>>

\* Mutant: a rejected containerFetch is attempted once more.
UpstreamRejectRetry(r) ==
    /\ pc[r] = "awaitFetch"
    /\ upstream \in {"stopped", "failing"}
    /\ IF calls[r].containerFetch < 2
       THEN /\ ArmAndCall(r)
            /\ UNCHANGED <<wid, did, startTime, upResp, resp, served, logs,
                           fault>>
       ELSE /\ ClearTimeout(r)
            /\ \E error \in UpstreamErrors(upstream) :
                  ContainerThrow(r, "upstreamCall", error, <<>>)
            /\ UNCHANGED <<calls, sent>>
    /\ UNCHANGED <<config, injected, boot, issued, target, objects, received, now, upstream, namespace, req, aborted>>

\* containerFetch rejects for a reason of the upstream's.
UpstreamReject(r) ==
    /\ pc[r] = "awaitFetch"
    /\ upstream \in {"stopped", "failing"}
    /\ ClearTimeout(r)
    /\ \E error \in UpstreamErrors(upstream) :
        ContainerThrow(r, "upstreamCall", error, <<>>)
    /\ UNCHANGED <<sent, config, injected, boot, issued, target, objects, received, now, upstream, namespace, req, aborted, calls>>

\* Mutant: one AbortController shared by all requests of the object.
TimerFireSharedController(r) ==
    /\ timer[r] = "armed"
    /\ now >= deadline[r]
    /\ aborted' = [q \in Reqs |-> TRUE]
    /\ timer' = [timer EXCEPT ![r] = "fired"]
    /\ deadline' = [deadline EXCEPT ![r] = 0]
    /\ IF pc[r] = "awaitFetch"
       THEN ContainerThrow(r, "timeout", AbortError, <<>>)
       ELSE UNCHANGED <<pc, resp, served, logs, fault, wid, did, startTime,
                        upResp>>
    /\ UNCHANGED <<sent, config, injected, boot, issued, target, objects, received, now, upstream, namespace, req, calls>>

\* The timer is due: controller.abort(). A pending containerFetch rejects
\* with the signal's reason, an AbortError.
TimerFire(r) ==
    /\ timer[r] = "armed"
    /\ now >= deadline[r]
    /\ aborted' = [aborted EXCEPT ![r] = TRUE]
    /\ timer' = [timer EXCEPT ![r] = "fired"]
    /\ deadline' = [deadline EXCEPT ![r] = 0]
    /\ IF pc[r] = "awaitFetch"
       THEN ContainerThrow(r, "timeout", AbortError, <<>>)
       ELSE UNCHANGED <<pc, resp, served, logs, fault, wid, did, startTime,
                        upResp>>
    /\ UNCHANGED <<sent, config, injected, boot, issued, target, objects, received, now, upstream, namespace, req, calls>>

\* response.arrayBuffer() resolves: the completion line is logged, the
\* response is built again over the buffered body and augmented.
ResponseDrain(r) ==
    /\ pc[r] = "drain"
    /\ received' = [received EXCEPT ![r] = upResp[r]]
    /\ LET response == upResp[r]
           responseBody == response.body
           duration == now - startTime[r]
           line == LogLine("log", did[r], req[r].method,
                           Pathname(req[r].url), "done", response.status,
                           duration, <<>>)
           proxiedResponse == NewResponse(responseBody, response.status,
                                          response.statusText,
                                          response.headers)
       IN IF ~proxiedResponse.ok
          THEN ContainerThrow(r, "construct", proxiedResponse.error, <<line>>)
          ELSE LET augmented == augmentResponse(proxiedResponse.response,
                                                did[r])
               IN IF ~augmented.ok
                  THEN ContainerThrow(r, "construct", augmented.error,
                                      <<line>>)
                  ELSE /\ Reply(r, augmented.response, "proxy", "relay",
                                <<line>>)
                       /\ UNCHANGED <<fault, upResp>>
    /\ UNCHANGED <<sent, config, injected, boot, issued, target, objects, now, upstream, namespace, req, timer,
                   deadline, aborted, calls>>

\* Mutant: when the drain breaks, what arrived so far is relayed.
ResponseDrainFailPartial(r) ==
    /\ pc[r] = "drain"
    /\ upstream = "failing"
    /\ Reply(r, [kind |-> "response", status |-> upResp[r].status,
                 statusText |-> upResp[r].statusText,
                 headers |-> upResp[r].headers, body |-> Bytes(<<>>)],
             "proxy", "relay", <<>>)
    /\ UNCHANGED <<fault, upResp>>
    /\ UNCHANGED <<sent, config, injected, boot, issued, target, objects, received, now, upstream, namespace, req, timer, deadline, aborted,
                   calls>>

\* response.arrayBuffer() rejects.
ResponseDrainFail(r) ==
    /\ pc[r] = "drain"
    /\ upstream = "failing"
    /\ \E error \in DrainErrors : ContainerThrow(r, "drain", error, <<>>)
    /\ UNCHANGED <<sent, config, injected, boot, issued, target, objects, received, now, upstream, namespace, req, timer, deadline, aborted,
                   calls>>

\* ------------------------------------------------------------------------
\* The environment
\* ------------------------------------------------------------------------

\* Time passes, but not beyond the moment a timer is due: a due timer's
\* callback runs first.
Advance ==
    /\ now + TickMs <= MaxTime
    /\ \A r \in Reqs : ~(timer[r] = "armed" /\ deadline[r] <= now)
    /\ now' = now + TickMs
    /\ UNCHANGED <<sent, config, injected, boot, issued, target, objects, received, upstream, namespace, pc, req, wid, did, startTime, timer,
                   deadline, aborted, upResp, resp, served, logs, calls,
                   fault>>

\* The container starts, stops or begins to fail.
UpstreamChange ==
    /\ \E state \in {"running", "stopped", "failing"} \ {upstream} :
        upstream' = state
    /\ UNCHANGED <<sent, config, injected, boot, issued, target, objects, received, now, namespace, pc, req, wid, did, startTime, timer,
                   deadline, aborted, upResp, resp, served, logs, calls,
                   fault>>

Next ==
    \/ \E r \in Reqs : RouterFetch(r)
    \/ \E r \in Reqs : StubReject(r)
    \/ \E r \in Reqs : ContainerFetchEnter(r)
    \/ \E r \in Reqs : RequestBodyRead(r)
    \/ \E r \in Reqs : RequestBodyFail(r)
    \/ \E r \in Reqs : UpstreamRespond(r)
    \/ \E r \in Reqs : UpstreamReject(r)
    \/ \E r \in Reqs : TimerFire(r)
    \/ \E r \in Reqs : ResponseDrain(r)
    \/ \E r \in Reqs : ResponseDrainFail(r)
    \/ Advance
    \/ UpstreamChange

Spec == Init /\ [][Next]_vars

\* ------------------------------------------------------------------------
\* The second implementation (src/unnamed/part_002, lines 519-614): the
\* same Worker and Durable Object without request ids, diagnostic paths,
\* timeout or JSON errors.
\* ------------------------------------------------------------------------

\* new Response(text, {status, headers}): a string body gets the content
\* type text/plain unless the headers name one.
NewTextResponse(parts, status, headers) ==
    NewResponse([kind |-> "text", parts |-> parts], status, "",
                IF HasHeader(headers, "Content-Type") THEN headers
                ELSE HeadersSet(headers, "Content-Type",
                                "text/plain;charset=UTF-8")).response

\* The catch block of the second ListmonkContainer.fetch.
LegacyContainerCatch(error) ==
    [log |-> LogLine("error", NoId, "", "", "ERROR", 0, 0,
                     <<MessageOf(error)>>),
     response |-> NewTextResponse(<<"Container error: ", MessageOf(error)>>,
                      502,
                      HeadersFrom(<< <<"X-Container-Override", "error">> >>))]

\* The catch block of the second default.fetch.
LegacyRouterCatch(error) ==
    [log |-> LogLine("error", NoId, "", "", "ROUTING", 0, 0,
                     <<MessageOf(error)>>),
     response |-> NewTextResponse(<<"Worker error: ", MessageOf(error)>>,
                                  502, NoHeaders)]

LegacyRouterThrow(r, error, lines) ==
    LET c == LegacyRouterCatch(error)
    IN Reply(r, c.response, "router", "error", lines \o <<c.log>>)

LegacyContainerThrow(r, point, error) ==
    /\ upResp' = [upResp EXCEPT ![r] = NoResponse]
    /\ fault' = [fault EXCEPT ![r] = [point |-> point, layer |-> "proxy",
                                      error |-> error]]
    /\ LET c == LegacyContainerCatch(error)
       IN Reply(r, c.response, "proxy", "error", <<c.log>>)

\* The second default.fetch up to its await: every path is delegated.
LegacyRouterFetch(r) ==
    /\ pc[r] = "idle"
    /\ \E request \in Requests :
        /\ req' = [req EXCEPT ![r] = request]
        /\ IF namespace = "throws"
           THEN /\ calls' = [calls EXCEPT ![r].idFromName = @ + 1]
                /\ fault' = [fault EXCEPT ![r] =
                                [point |-> "resolve", layer |-> "router",
                                 error |-> ResolveError]]
                /\ LegacyRouterThrow(r, ResolveError, <<>>)
                /\ UNCHANGED target
           ELSE /\ calls' = [calls EXCEPT ![r].idFromName = @ + 1,
                                          ![r].stubFetch = @ + 1]
                /\ target' = [target EXCEPT ![r] =
                                  idFromName("listmonk-v11")]
                /\ pc' = [pc EXCEPT ![r] = "delegated"]
                /\ UNCHANGED <<resp, served, logs, fault, wid, did,
                               startTime>>
    /\ UNCHANGED <<sent, config, injected, boot, issued, objects, received, now, upstream, namespace,
                   timer, deadline, aborted, upResp>>

LegacyStubReject(r) ==
    /\ pc[r] = "delegated"
    /\ namespace = "unreachable"
    /\ fault' = [fault EXCEPT ![r] = [point |-> "stubFetch",
                                      layer |-> "router",
                                      error |-> StubError]]
    /\ LegacyRouterThrow(r, StubError, <<>>)
    /\ UNCHANGED <<sent, config, injected, boot, issued, target, objects, received, now, upstream, namespace, req, timer, deadline,
                   aborted, upResp, calls>>

\* The second ListmonkContainer.fetch up to its first await; containerFetch
\* is called with no signal and no timer.
LegacyContainerFetchEnter(r) ==
    /\ pc[r] = "delegated"
    /\ namespace # "unreachable"
    /\ IF req[r].body.kind # "null"
       THEN /\ pc' = [pc EXCEPT ![r] = "readBody"]
            /\ UNCHANGED <<calls, sent>>
       ELSE /\ pc' = [pc EXCEPT ![r] = "awaitFetch"]
            /\ calls' = [calls EXCEPT ![r].containerFetch = @ + 1]
            /\ sent' = [sent EXCEPT ![r] =
                           ContainerFetchArgs(req[r], NullBody, FALSE)]
    /\ objects' = objects \cup {target[r]}
    /\ injected' = IF target[r] \in objects THEN injected
                   ELSE Constructed("second", LegacyEnvVars(config))
    /\ UNCHANGED <<config, boot, issued, target, received, now, upstream,
                   namespace, req, wid, did,
                   startTime, timer, deadline, aborted, upResp, resp, served,
                   logs, fault>>

LegacyRequestBodyRead(r) ==
    /\ pc[r] = "readBody"
    /\ pc' = [pc EXCEPT ![r] = "awaitFetch"]
    /\ calls' = [calls EXCEPT ![r].containerFetch = @ + 1]
    /\ sent' = [sent EXCEPT ![r] =
                   ContainerFetchArgs(req[r], bodyContent(req[r]), FALSE)]
    /\ UNCHANGED <<config, injected, boot, issued, target, objects, received, now,
                   upstream, namespace, req, wid, did, startTime, timer,
                   deadline, aborted, upResp, resp, served, logs, fault>>

LegacyRequestBodyFail(r) ==
    /\ pc[r] = "readBody"
    /\ \E error \in BodyReadErrors : LegacyContainerThrow(r, "readBody", error)
    /\ UNCHANGED <<sent, config, injected, boot, issued, target, objects, received, now, upstream, namespace, req, timer, deadline,
                   aborted, calls>>

LegacyUpstreamRespond(r) ==
    /\ pc[r] = "awaitFetch"
    /\ upstream = "running"
    /\ \E u \in UpstreamResponses : upResp' = [upResp EXCEPT ![r] = u]
    /\ pc' = [pc EXCEPT ![r] = "drain"]
    /\ UNCHANGED <<sent, config, injected, boot, issued, target, objects, received, now, upstream, namespace, req, wid, did,
                   startTime, timer, deadline, aborted, resp, served, logs,
                   calls, fault>>

LegacyUpstreamReject(r) ==
    /\ pc[r] = "awaitFetch"
    /\ upstream \in {"stopped", "failing"}
    /\ \E error \in UpstreamErrors(upstream) :
        LegacyContainerThrow(r, "upstreamCall", error)
    /\ UNCHANGED <<sent, config, injected, boot, issued, target, objects, received, now, upstream, namespace, req, timer, deadline,
                   aborted, calls>>

\* response.arrayBuffer() resolves: a fresh response over the buffered body
\* with X-Container-Override set.
LegacyResponseDrain(r) ==
    /\ pc[r] = "drain"
    /\ received' = [received EXCEPT ![r] = upResp[r]]
    /\ LET response == upResp[r]
           newHeaders == HeadersSet(response.headers,
                                    "X-Container-Override", "true")
           fresh == NewResponse(response.body, response.status,
                                response.statusText, newHeaders)
       IN IF ~fresh.ok
          THEN LegacyContainerThrow(r, "construct", fresh.error)
          ELSE /\ Reply(r, fresh.response, "proxy", "relay", <<>>)
               /\ UNCHANGED <<fault, upResp>>
    /\ UNCHANGED <<sent, config, injected, boot, issued, target, objects, now, upstream, namespace, req, timer,
                   deadline, aborted, calls>>

LegacyResponseDrainFail(r) ==
    /\ pc[r] = "drain"
    /\ upstream = "failing"
    /\ \E error \in DrainErrors : LegacyContainerThrow(r, "drain", error)
    /\ UNCHANGED <<sent, config, injected, boot, issued, target, objects, received, now, upstream, namespace, req, timer, deadline,
                   aborted, calls>>

NextLegacy ==
    \/ \E r \in Reqs : LegacyRouterFetch(r)
    \/ \E r \in Reqs : LegacyStubReject(r)
    \/ \E r \in Reqs : LegacyContainerFetchEnter(r)
    \/ \E r \in Reqs : LegacyRequestBodyRead(r)
    \/ \E r \in Reqs : LegacyRequestBodyFail(r)
    \/ \E r \in Reqs : LegacyUpstreamRespond(r)
    \/ \E r \in Reqs : LegacyUpstreamReject(r)
    \/ \E r \in Reqs : LegacyResponseDrain(r)
    \/ \E r \in Reqs : LegacyResponseDrainFail(r)
    \/ UpstreamChange

SpecLegacy == Init /\ [][NextLegacy]_vars

\* ------------------------------------------------------------------------
\* The construction of the ListmonkContainer object under every
\* configuration: the class field initialiser evaluates envVars once.
\* ------------------------------------------------------------------------

InitConfig ==
    /\ InitHandlers
    /\ config \in Configs

\* new ListmonkContainer(...) of the first implementation.
ContainerConstruct ==
    /\ injected = NoEnvVars
    /\ injected' = Constructed("first", envVars(config))
    /\ UNCHANGED <<sent, config, boot, issued, target, objects, received, now,
                   upstream, namespace, pc, req, wid, did, startTime, timer, deadline,
                   aborted, upResp, resp, served, logs, calls, fault>>

\* new ListmonkContainer(...) of the second implementation.
LegacyContainerConstruct ==
    /\ injected = NoEnvVars
    /\ injected' = Constructed("second", LegacyEnvVars(config))
    /\ UNCHANGED <<sent, config, boot, issued, target, objects, received, now,
                   upstream, namespace, pc, req, wid, did, startTime, timer, deadline,
                   aborted, upResp, resp, served, logs, calls, fault>>

NextConfig ==
    \/ ContainerConstruct
    \/ LegacyContainerConstruct

SpecConfig == InitConfig /\ [][NextConfig]_vars

\* ------------------------------------------------------------------------
\* The boot of the container, under both Dockerfiles and the deployments
\* of BootConfigs.
\* ------------------------------------------------------------------------

HandlersIdle ==
    UNCHANGED <<now, namespace, pc, req, wid, did, startTime, timer,
                deadline, aborted, upResp, received, resp, served, logs,
                calls, sent, config, injected, issued, target, objects,
                fault>>

InitBoot ==
    /\ InitHandlers
    /\ upstream = "stopped"
    /\ namespace = "ok"
    /\ config \in BootConfigs

\* The platform starts the container: a fresh file system, `sh -c` on the
\* CMD.
ContainerBoot ==
    /\ boot.phase = "off"
    /\ \E script \in Scripts :
          boot' = [NotBooted EXCEPT !.phase = "script", !.script = script,
                                    !.pc = 1, !.db = boot.db]
    /\ UNCHANGED upstream
    /\ HandlersIdle

\* A command of the list that the status so far rules out.
ShellSkip ==
    /\ AtCommand(boot, {"set", "echo", "true", "apk", "install", "printf",
                        "psql", "listmonk"})
    /\ ~Runs(boot)
    /\ boot' = [boot EXCEPT !.pc = @ + 1]
    /\ UNCHANGED upstream
    /\ HandlersIdle

\* set -e, echo, true: status 0. (Within an AND-OR list -e is ignored for
\* every command but the last.)
ShellBuiltin ==
    /\ AtCommand(boot, {"set", "echo", "true"})
    /\ Runs(boot)
    /\ boot' = [boot EXCEPT !.pc = @ + 1, !.status = 0]
    /\ UNCHANGED upstream
    /\ HandlersIdle

\* apk add --no-cache postgresql16-client: installs psql, or fails.
ApkAdd ==
    /\ AtCommand(boot, {"apk"})
    /\ Runs(boot)
    /\ \E ok \in BOOLEAN :
          boot' = [boot EXCEPT !.pc = @ + 1,
                               !.status = IF ok THEN 0 ELSE 1,
                               !.psql = ok,
                               !.ran = Append(@, "apk")]
    /\ UNCHANGED upstream
    /\ HandlersIdle

\* ./listmonk --install --yes --config '': sets the schema up, or fails.
ListmonkInstall ==
    /\ AtCommand(boot, {"install"})
    /\ Runs(boot)
    /\ \E ok \in BOOLEAN :
          boot' = [boot EXCEPT !.pc = @ + 1,
                               !.status = IF ok THEN 0 ELSE 1,
                               !.install = IF ok THEN "ok" ELSE "failed",
                               !.db.schema = @ \/ ok,
                               !.ran = Append(@, "install")]
    /\ UNCHANGED upstream
    /\ HandlersIdle

\* printf "UPDATE settings SET value = '"<url>"' ..." > /tmp/fix.sql; the
\* container's environment is the envVars of the Container class.
Printf ==
    /\ AtCommand(boot, {"printf"})
    /\ Runs(boot)
    /\ boot' = [boot EXCEPT !.pc = @ + 1, !.status = 0,
                            !.fixSql = [from |-> "printf",
                                        url |-> ExpandUrl(boot.script.url,
                                                          envVars(config))]]
    /\ UNCHANGED upstream
    /\ HandlersIdle

\* psql "<connection>" -f /tmp/fix.sql. Without psql the shell reports 127;
\* a failed connection is status 2; once connected psql runs the file and
\* exits 0, also if the statement fails (ON_ERROR_STOP is not set): the
\* UPDATE fails where the settings table does not exist.
Psql ==
    /\ AtCommand(boot, {"psql"})
    /\ Runs(boot)
    /\ IF ~boot.psql
       THEN boot' = [boot EXCEPT !.pc = @ + 1, !.status = 127,
                                 !.ran = Append(@, "psql")]
       ELSE \E connected \in BOOLEAN :
               IF ~connected
               THEN boot' = [boot EXCEPT !.pc = @ + 1, !.status = 2,
                                         !.ran = Append(@, "psql")]
               ELSE IF boot.db.schema
               THEN boot' = [boot EXCEPT !.pc = @ + 1, !.status = 0,
                                         !.updated = TRUE,
                                         !.db.root_url = boot.fixSql,
                                         !.ran = Append(@, "psql")]
               ELSE boot' = [boot EXCEPT !.pc = @ + 1, !.status = 0,
                                         !.ran = Append(@, "psql")]
    /\ UNCHANGED upstream
    /\ HandlersIdle

\* ./listmonk --config '': Listmonk serves on port 9000.
ListmonkStart ==
    /\ AtCommand(boot, {"listmonk"})
    /\ Runs(boot)
    /\ boot' = [boot EXCEPT !.phase = "listmonk",
                            !.ran = Append(@, "listmonk")]
    /\ upstream' = "running"
    /\ HandlersIdle

\* The list is through without Listmonk: sh exits with the last status.
ShellExit ==
    /\ boot.phase = "script"
    /\ boot.pc = Len(boot.script.cmds) + 1
    /\ boot' = [boot EXCEPT !.phase = "exited"]
    /\ UNCHANGED upstream
    /\ HandlersIdle

\* The container is stopped (sleepAfter, or its process ended).
ContainerStop ==
    /\ boot.phase \in {"listmonk", "exited"}
    /\ boot' = [boot EXCEPT !.phase = "off"]
    /\ upstream' = "stopped"
    /\ HandlersIdle

NextBoot ==
    \/ ContainerBoot
    \/ ShellSkip
    \/ ShellBuiltin
    \/ ApkAdd
    \/ ListmonkInstall
    \/ Printf
    \/ Psql
    \/ ListmonkStart
    \/ ShellExit
    \/ ContainerStop

SpecBoot == InitBoot /\ [][NextBoot]_vars

\* ------------------------------------------------------------------------
\* Properties
\* ------------------------------------------------------------------------

Done(r) == pc[r] = "done"

DiagnosticPaths == {"/__health", "/__version"}

NoCalls == [idFromName |-> 0, stubFetch |-> 0, containerFetch |-> 0]

\* The response is one of this program's structured JSON errors.
IsJsonError(response) ==
    /\ response.kind = "response"
    /\ response.body.kind = "json"
    /\ "code" \in DOMAIN response.body.value

CodeOf(response) == response.body.value.code.v

\* The text of the failure as the platform reports it.
UnderlyingText(error) ==
    IF error.cls = "Thrown" THEN error.value ELSE error.message

Contains(parts, text) == \E i \in 1..Len(parts) : parts[i] = text

\* C1: a request to /__health or /__version, whatever its method and
\* whatever the state of the container and of the namespace, is answered
\* with status 200 by the Worker itself: idFromName, stub.fetch and
\* containerFetch are never called for it.
C1_DiagnosticBypass ==
    \A r \in Reqs :
        (pc[r] # "idle" /\ req[r].url.pathname \in DiagnosticPaths)
            => /\ Done(r)
               /\ resp[r].kind = "response"
               /\ resp[r].status = 200
               /\ served[r] = [by |-> "router", as |-> "diagnostic"]
               /\ calls[r] = NoCalls
               /\ received[r] = NoResponse

C1_Witness ==
    \E r1, r2 \in Reqs :
        /\ Done(r1) /\ req[r1].url.pathname = "/__health"
        /\ req[r1].method = "POST" /\ resp[r1].status = 200
        /\ Done(r2) /\ req[r2].url.pathname = "/__version"
        /\ resp[r2].status = 200
        /\ upstream = "stopped" /\ namespace = "throws"

\* C2: when the 30-second timer of a request fires (containerFetch still
\* pending when CONTAINER_TIMEOUT_MS have passed since the call), the call is
\* aborted and the client receives status 504 with code CONTAINER_TIMEOUT.
C2_TimeoutIs504 ==
    \A r \in Reqs :
        timer[r] = "fired"
            => /\ aborted[r]
               /\ Done(r)
               /\ IsJsonError(resp[r])
               /\ resp[r].status = 504
               /\ CodeOf(resp[r]) = "CONTAINER_TIMEOUT"

C2_Witness ==
    \E r \in Reqs :
        /\ timer[r] = "fired" /\ Done(r) /\ resp[r].status = 504
        /\ now >= CONTAINER_TIMEOUT_MS
        /\ req[r].method = "POST"

\* C3: when containerFetch rejects for a reason of the upstream's (not the
\* timer), the client receives status 502 with code CONTAINER_FETCH_ERROR and
\* an error field that contains the text of the failure.
C3_FetchErrorIs502 ==
    \A r \in Reqs :
        fault[r].point = "upstreamCall"
            => /\ Done(r)
               /\ IsJsonError(resp[r])
               /\ resp[r].status = 502
               /\ CodeOf(resp[r]) = "CONTAINER_FETCH_ERROR"
               /\ Contains(resp[r].body.value.error.v,
                           UnderlyingText(fault[r].error))

C3_Witness ==
    \E r1, r2 \in Reqs :
        /\ fault[r1].point = "upstreamCall" /\ fault[r1].error.cls = "Thrown"
        /\ fault[r2].point = "upstreamCall" /\ fault[r2].error.cls = "Error"
        /\ Done(r1) /\ Done(r2)
        /\ resp[r1].status = 502 /\ resp[r2].status = 502

\* C4 as stated: a failure to obtain the stub or to delegate to it is
\* answered with a JSON error of status 503 whose code is ROUTING_ERROR.
C4_RoutingErrorCode ==
    \A r \in Reqs :
        fault[r].layer = "router"
            => /\ Done(r)
               /\ IsJsonError(resp[r])
               /\ resp[r].status = 503
               /\ CodeOf(resp[r]) = "ROUTING_ERROR"

\* C4 amended: a failure to obtain the stub or to delegate to it is
\* answered with a JSON error of status 503 whose code is
\* DURABLE_OBJECT_ERROR.
C4_DurableObjectErrorCode ==
    \A r \in Reqs :
        fault[r].layer = "router"
            => /\ Done(r)
               /\ IsJsonError(resp[r])
               /\ resp[r].status = 503
               /\ CodeOf(resp[r]) = "DURABLE_OBJECT_ERROR"

C4_Witness ==
    \E r \in Reqs :
        /\ fault[r].point = "stubFetch" /\ fault[r].layer = "router"
        /\ Done(r) /\ resp[r].status = 503
        /\ calls[r].stubFetch = 1

\* C5: every upstream response whose body was received completely is
\* returned to the client with the same status code, the same status text
\* and the same body bytes.
C5_RelayRoundTrip ==
    \A r \in Reqs :
        (Done(r) /\ received[r] # NoResponse)
            => /\ resp[r].kind = "response"
               /\ resp[r].status = received[r].status
               /\ resp[r].statusText = received[r].statusText
               /\ resp[r].body = received[r].body

\* C6: every response the client receives carries an X-Request-Id header
\* whose value is not empty.
C6_RequestIdHeader ==
    \A r \in Reqs :
        Done(r)
            => /\ resp[r].kind = "response"
               /\ HasHeader(resp[r].headers, "X-Request-Id")
               /\ Len(GetHeader(resp[r].headers, "X-Request-Id")) > 0

C6_Witness ==
    \E r1, r2 \in Reqs :
        /\ Done(r1) /\ served[r1] = [by |-> "proxy", as |-> "relay"]
        /\ Len(GetHeader(resp[r1].headers, "X-Request-Id")) = 12
        /\ Done(r2) /\ served[r2].as \in {"error", "diagnostic"}

\* C7: whatever fails (the request body read, the upstream call, the
\* timeout, the drain of the response body, the construction of the response,
\* the resolution or the call of the stub), the client receives a response
\* with a structured JSON error body, built by the layer the failure
\* occurred in; no exception is left uncaught.
C7_NoUncaughtFault ==
    \A r \in Reqs :
        /\ Done(r) => resp[r].kind = "response"
        /\ fault[r].point # "none"
            => /\ Done(r)
               /\ IsJsonError(resp[r])
               /\ served[r] = [by |-> fault[r].layer, as |-> "error"]

C7_Witness ==
    \E r1, r2 \in Reqs :
        /\ fault[r1].point = "drain" /\ Done(r1) /\ IsJsonError(resp[r1])
        /\ fault[r2].point = "construct" /\ Done(r2) /\ IsJsonError(resp[r2])

\* C8: every error response of this program has Content-Type
\* application/json and a JSON body with exactly the fields error, code,
\* request_id, timestamp and version, each a string, version being VERSION.
C8_ErrorBodyShape ==
    \A r \in Reqs :
        served[r].as = "error"
            => /\ resp[r].kind = "response"
               /\ HasHeader(resp[r].headers, "Content-Type")
               /\ GetHeader(resp[r].headers, "Content-Type")
                    = "application/json"
               /\ resp[r].body.kind = "json"
               /\ DOMAIN resp[r].body.value
                    = {"error", "code", "request_id", "timestamp", "version"}
               /\ \A f \in DOMAIN resp[r].body.value :
                    resp[r].body.value[f].t = "string"
               /\ resp[r].body.value.version.v = VERSION

\* C9: an error response of this program has one of three codes, and its
\* status is 504 exactly for CONTAINER_TIMEOUT, 502 exactly for
\* CONTAINER_FETCH_ERROR and 503 exactly for the routing code.
C9_StatusFollowsCode ==
    \A r \in Reqs :
        served[r].as = "error"
            => /\ IsJsonError(resp[r])
               /\ CodeOf(resp[r]) \in {"CONTAINER_TIMEOUT",
                                       "CONTAINER_FETCH_ERROR",
                                       "DURABLE_OBJECT_ERROR"}
               /\ resp[r].status = 504
                    <=> CodeOf(resp[r]) = "CONTAINER_TIMEOUT"
               /\ resp[r].status = 502
                    <=> CodeOf(resp[r]) = "CONTAINER_FETCH_ERROR"
               /\ resp[r].status = 503
                    <=> CodeOf(resp[r]) = "DURABLE_OBJECT_ERROR"

C9_Witness ==
    \E r1, r2 \in Reqs :
        /\ served[r1].as = "error" /\ resp[r1].status = 504
        /\ served[r2].as = "error" /\ resp[r2].status = 502

\* C10: for a request, containerFetch is called at most once and stub.fetch
\* at most once; a request that met a failure is answered at once, with no
\* further attempt.
C10_NoRetry ==
    \A r \in Reqs :
        /\ calls[r].containerFetch <= 1
        /\ calls[r].stubFetch <= 1
        /\ calls[r].idFromName <= 1
        /\ fault[r].point # "none" => Done(r)

C10_Witness ==
    \E r \in Reqs :
        /\ fault[r].point = "upstreamCall" /\ Done(r)
        /\ calls[r].containerFetch = 1 /\ calls[r].stubFetch = 1

\* C11: a request never waits on the upstream without bound: while
\* ListmonkContainer.fetch awaits the upstream, be it for the response's
\* headers (containerFetch) or for its body (response.arrayBuffer), the
\* request's own timer is armed and due within CONTAINER_TIMEOUT_MS, so that
\* an upstream that never answers, or that stalls while it sends the body,
\* cannot keep the client from an answer.
C11_BoundedWait ==
    \A r \in Reqs :
        pc[r] \in {"awaitFetch", "drain"}
            => /\ timer[r] = "armed"
               /\ deadline[r] <= now + CONTAINER_TIMEOUT_MS

\* The response is a relayed upstream response (a successful forward).
Relayed(r) == Done(r) /\ served[r] = [by |-> "proxy", as |-> "relay"]

\* The correlation identifier ListmonkContainer.fetch generated for the
\* request: the one of its first log line.
LoggedId(r) == logs[r][1].rid

\* C12: every relayed response carries X-Request-Id equal to the request's
\* correlation identifier, X-Container-Proxied: true, X-App-Version equal to
\* VERSION, X-Content-Type-Options: nosniff, X-Frame-Options: SAMEORIGIN and
\* Referrer-Policy: strict-origin-when-cross-origin, whatever headers the
\* upstream sent.
C12_AugmentedHeaders ==
    \A r \in Reqs :
        Relayed(r)
            => LET h == resp[r].headers
               IN /\ {"x-request-id", "x-container-proxied", "x-app-version",
                      "x-content-type-options", "x-frame-options",
                      "referrer-policy"} \subseteq DOMAIN h
                  /\ h["x-request-id"] = LoggedId(r)
                  /\ Len(h["x-request-id"]) = REQUEST_ID_LENGTH
                  /\ h["x-container-proxied"] = "true"
                  /\ h["x-app-version"] = VERSION
                  /\ h["x-content-type-options"] = "nosniff"
                  /\ h["x-frame-options"] = "SAMEORIGIN"
                  /\ h["referrer-policy"] = "strict-origin-when-cross-origin"

\* A relayed response whose upstream sent tracing and security headers of
\* its own, and one whose upstream sent none.
C12_Witness ==
    \E r1, r2 \in Reqs :
        /\ Relayed(r1) /\ "x-frame-options" \in DOMAIN received[r1].headers
        /\ received[r1].headers["x-frame-options"] = "DENY"
        /\ resp[r1].headers["x-frame-options"] = "SAMEORIGIN"
        /\ Relayed(r2) /\ "x-frame-options" \notin DOMAIN received[r2].headers
        /\ resp[r2].headers["x-frame-options"] = "SAMEORIGIN"

\* The header names ListmonkContainer.fetch sets on a relayed response.
AugmentedNames ==
    {"x-request-id", "x-container-proxied", "x-powered-by", "x-app-version",
     "x-content-type-options", "x-frame-options", "referrer-policy"}

\* C13 as stated: the headers of a relayed response are a superset of the
\* upstream's: every name/value pair the upstream sent is present unchanged,
\* also when the upstream sends X-Request-Id, X-Powered-By or a security
\* header itself.
C13_HeaderSuperset ==
    \A r \in Reqs :
        Relayed(r)
            => \A n \in DOMAIN received[r].headers :
                  /\ n \in DOMAIN resp[r].headers
                  /\ resp[r].headers[n] = received[r].headers[n]

\* C13 amended: no header of the upstream is removed, and every header of
\* the upstream keeps its value unless its name is one of the seven the
\* program sets itself; the relayed response has the upstream's header names
\* and those seven, no others.
C13_UpstreamHeadersKept ==
    \A r \in Reqs :
        Relayed(r)
            => /\ DOMAIN resp[r].headers
                    = DOMAIN received[r].headers \cup AugmentedNames
               /\ \A n \in DOMAIN received[r].headers \ AugmentedNames :
                     resp[r].headers[n] = received[r].headers[n]

\* A relayed response whose upstream sent a header the program replaces and
\* one it keeps.
C13_Witness ==
    \E r \in Reqs :
        /\ Relayed(r)
        /\ {"content-type", "x-powered-by"} \subseteq DOMAIN received[r].headers
        /\ resp[r].headers["content-type"] = "text/html"
        /\ received[r].headers["x-powered-by"] = "listmonk"
        /\ resp[r].headers["x-powered-by"] = "Cloudflare Containers"

\* The request was handed to Durable Object code (stub.fetch was called).
Delegated(r) == calls[r].stubFetch > 0

\* C14: every request to a path other than /__health and /__version is
\* delegated through the stub of the one name listmonk-v11 (unless the
\* namespace binding itself throws, C4), a diagnostic request through none;
\* however the requests interleave, the handlers of all delegated requests
\* run in the same Durable Object and no second object is ever created.
C14_SingleHandle ==
    /\ \A r \in Reqs :
          /\ (pc[r] # "idle" /\ req[r].url.pathname \notin DiagnosticPaths
                /\ namespace # "throws") => Delegated(r)
          /\ Delegated(r) => target[r] = idFromName("listmonk-v11")
          /\ ~Delegated(r) => target[r] = NoTarget
          /\ pc[r] \in {"readBody", "awaitFetch", "drain"}
                => target[r] \in objects
    /\ Cardinality(objects) <= 1
    /\ \A r1, r2 \in Reqs :
          (Delegated(r1) /\ Delegated(r2)) => target[r1] = target[r2]

\* Two first requests, a GET and a POST, whose handlers run at the same time
\* in the one object.
C14_Witness ==
    \E r1, r2 \in Reqs :
        /\ r1 # r2
        /\ pc[r1] = "awaitFetch" /\ req[r1].method = "GET"
        /\ pc[r2] \in {"readBody", "awaitFetch"} /\ req[r2].method = "POST"
        /\ target[r1] = target[r2]
        /\ objects = {idFromName(DURABLE_OBJECT_NAME)}

\* The response is successful (response.ok): its status is in 200..299.
Ok(response) ==
    /\ response.kind = "response"
    /\ response.status >= 200 /\ response.status <= 299

\* The response has a JSON object body in which `field` is the string v.
HasField(response, field, v) ==
    /\ response.body.kind = "json"
    /\ field \in DOMAIN response.body.value
    /\ response.body.value[field] = JStr(v)

\* C15: a request to /__health is answered with a successful response whose
\* JSON body has status "healthy", database "neon-postgresql" and container
\* "listmonk".
C15_HealthBody ==
    \A r \in Reqs :
        (Done(r) /\ req[r].url.pathname = "/__health")
            => /\ Ok(resp[r])
               /\ HasField(resp[r], "status", "healthy")
               /\ HasField(resp[r], "database", "neon-postgresql")
               /\ HasField(resp[r], "container", "listmonk")

\* C16: a request to /__version is answered with a successful response whose
\* JSON body has a version string that is not empty, database
\* "neon-postgresql" and runtime "cloudflare-containers".
C16_VersionBody ==
    \A r \in Reqs :
        (Done(r) /\ req[r].url.pathname = "/__version")
            => /\ Ok(resp[r])
               /\ resp[r].body.kind = "json"
               /\ "version" \in DOMAIN resp[r].body.value
               /\ resp[r].body.value.version.t = "string"
               /\ resp[r].body.value.version.v # ""
               /\ HasField(resp[r], "database", "neon-postgresql")
               /\ HasField(resp[r], "runtime", "cloudflare-containers")

\* The JSON fields whose value is one string (error is a concatenation,
\* request_id and timestamp are generated and hold no prose).
PlainFields ==
    {"code", "version", "status", "container", "database", "domain",
     "uptime", "runtime"}

\* The text occurs in the body of the response.
BodyContains(response, text) ==
    IF response.body.kind = "text"
    THEN Contains(response.body.parts, text)
    ELSE IF response.body.kind = "json"
    THEN \/ \E f \in DOMAIN response.body.value \cap PlainFields :
               response.body.value[f].v = text
         \/ /\ "error" \in DOMAIN response.body.value
            /\ Contains(response.body.value.error.v, text)
    ELSE FALSE

\* C17: a GET of / is answered either with a successful page of the
\* upstream or with status 503 and a loading page whose body contains
\* "Hold on while we spin up" and "mail.megabyte.space"; nothing else.
C17_RootOutcome ==
    \A r \in Reqs :
        (Done(r) /\ req[r].method = "GET" /\ req[r].url.pathname = "/")
            => \/ Ok(resp[r]) /\ served[r].as = "relay"
               \/ /\ resp[r].kind = "response"
                  /\ resp[r].status = 503
                  /\ BodyContains(resp[r], "Hold on while we spin up")
                  /\ BodyContains(resp[r], "mail.megabyte.space")

\* The X-Request-Id the client received.
ResponseId(r) == GetHeader(resp[r].headers, "X-Request-Id")

\* C18: the responses of two distinct requests of one run carry different
\* X-Request-Id values, be the requests diagnostic, forwarded or failed,
\* sequential or concurrent. (Stated for requests whose identifiers come
\* from different UUIDs: crypto.randomUUID is taken not to repeat itself.)
C18_UniqueIds ==
    \A r1, r2 \in Reqs :
        (r1 # r2 /\ Done(r1) /\ Done(r2) /\ issued[r1] # issued[r2])
            => ResponseId(r1) # ResponseId(r2)

\* Two JSON bodies have the same fields with the same types, and the same
\* value in every field but timestamp.
SameButTimestamp(b1, b2) ==
    /\ b1.kind = "json" /\ b2.kind = "json"
    /\ DOMAIN b1.value = DOMAIN b2.value
    /\ \A f \in DOMAIN b1.value :
          /\ b1.value[f].t = b2.value[f].t
          /\ f # "timestamp" => b1.value[f].v = b2.value[f].v

\* The request r is answered in this step as a diagnostic request.
DiagnosticStep(r) ==
    /\ pc[r] = "idle" /\ pc'[r] = "done"
    /\ req'[r].url.pathname \in DiagnosticPaths

\* C19: when a call of /__health or of /__version is answered, its JSON
\* body agrees with the body of every earlier call of the same path in its
\* fields, their types and their values, timestamp excepted; and the call
\* leaves the clock, the container, the namespace, its objects and every
\* other request as they were.
C19_DiagnosticIdempotent ==
    [][\A r \in Reqs :
          DiagnosticStep(r)
              => /\ \A r2 \in Reqs \ {r} :
                      (Done(r2)
                         /\ req[r2].url.pathname = req'[r].url.pathname)
                          => SameButTimestamp(resp[r2].body, resp'[r].body)
                 /\ UNCHANGED <<now, upstream, namespace, objects, timer,
                                deadline, aborted, upResp, received, calls,
                                fault, target, wid, did, startTime>>
                 /\ \A r2 \in Reqs \ {r} :
                      /\ pc'[r2] = pc[r2] /\ req'[r2] = req[r2]
                      /\ resp'[r2] = resp[r2] /\ logs'[r2] = logs[r2]
                      /\ served'[r2] = served[r2]
                 /\ logs'[r] = <<>>
      ]_vars

\* Two calls of /__health answered at different times.
C19_Witness ==
    \E r1, r2 \in Reqs :
        /\ r1 # r2 /\ Done(r1) /\ Done(r2)
        /\ req[r1].url.pathname = "/__health"
        /\ req[r2].url.pathname = "/__health"
        /\ resp[r1].body.value.timestamp # resp[r2].body.value.timestamp
        /\ SameButTimestamp(resp[r1].body, resp[r2].body)

\* The positions of the console.error lines among the request's lines.
ErrorLines(r) == {i \in 1..Len(logs[r]) : logs[r][i].level = "error"}

\* C20: a request answered with an error response of this program has
\* exactly one console.error line; the line is the last one written before
\* the response was returned and carries the X-Request-Id of the response.
\* An error answered by ListmonkContainer.fetch has no line of the Worker's
\* catch block, and no other request has an error line.
C20_ErrorLoggedOnce ==
    \A r \in Reqs :
        /\ served[r].as = "error"
              => /\ ErrorLines(r) = {Len(logs[r])}
                 /\ Len(logs[r]) >= 1
                 /\ logs[r][Len(logs[r])].rid = ResponseId(r)
                 /\ served[r].by = "proxy"
                       => /\ logs[r][Len(logs[r])].event \in {"TIMEOUT", "ERROR"}
                          /\ \A i \in 1..Len(logs[r]) :
                                logs[r][i].event # "ROUTING"
                 /\ served[r].by = "router"
                       => logs[r][Len(logs[r])].event = "ROUTING"
        /\ served[r].as # "error" => ErrorLines(r) = {}

\* An error of ListmonkContainer.fetch met after the completion line was
\* written, and a timeout, each logged once and returned by the Worker as
\* it came.
C20_Witness ==
    \E r1, r2 \in Reqs :
        /\ served[r1] = [by |-> "proxy", as |-> "error"]
        /\ Len(logs[r1]) = 3 /\ logs[r1][2].event = "done"
        /\ logs[r1][3].level = "error"
        /\ logs[r1][3].rid = ResponseId(r1)
        /\ served[r2] = [by |-> "proxy", as |-> "error"]
        /\ Len(logs[r2]) = 2 /\ logs[r2][2].event = "TIMEOUT"
        /\ logs[r2][2].rid = ResponseId(r2)

\* The request was handled by ListmonkContainer.fetch: its first line is the
\* handler's start line.
HandledByContainer(r) ==
    /\ Done(r)
    /\ Len(logs[r]) >= 1
    /\ logs[r][1].event = "start"

\* C21: a request handled by ListmonkContainer.fetch has exactly two log
\* lines: the start line, then one completion or failure line, both with the
\* same identifier, the method and the path of the request; a completion
\* line carries the status of the response.
C21_TwoLogLines ==
    \A r \in Reqs :
        HandledByContainer(r)
            => /\ Len(logs[r]) = 2
               /\ logs[r][2].event \in {"done", "TIMEOUT", "ERROR"}
               /\ \A i \in 1..2 :
                     /\ logs[r][i].rid = logs[r][1].rid
                     /\ logs[r][i].method = req[r].method
                     /\ logs[r][i].path = req[r].url.pathname
               /\ logs[r][2].event = "done"
                     => logs[r][2].status = resp[r].status

\* C22: the variables injected into the container equal the configured
\* values unchanged, the empty string included (database host, port, user,
\* password, name, SSL mode, admin user and password), and the root URL is
\* "https://" followed by the configured domain.
C22_EnvPassThrough ==
    injected # NoEnvVars
        => LET v == injected.vars
           IN /\ v.LISTMONK_db__host = config.DB_HOST
              /\ v.LISTMONK_db__port = config.DB_PORT
              /\ v.LISTMONK_db__user = config.DB_USER
              /\ v.LISTMONK_db__password = config.DB_PASSWORD
              /\ v.LISTMONK_db__database = config.DB_NAME
              /\ v.LISTMONK_db__ssl_mode = config.DB_SSL_MODE
              /\ v.LISTMONK_ADMIN_USER = config.ADMIN_USER
              /\ v.LISTMONK_ADMIN_PASSWORD = config.ADMIN_PASSWORD
              /\ v.LISTMONK_app__root_url = <<"https://", config.APP_DOMAIN>>

\* The request's containerFetch call is issued in this step.
UpstreamCalled(r) == calls'[r].containerFetch > calls[r].containerFetch

\* C23: containerFetch is called for a request with a body only in the step
\* in which request.arrayBuffer() resolves, never while the body is still
\* being read; the body it is given is the buffer of all bytes of the
\* request body, or null when the request has none, never the stream.
C23_BodyBufferedFirst ==
    [][\A r \in Reqs :
          /\ UpstreamCalled(r)
                => IF req[r].body.kind = "null"
                   THEN pc[r] = "delegated" /\ sent'[r].body = NullBody
                   ELSE /\ pc[r] = "readBody"
                        /\ sent'[r].body = Bytes(req[r].body.bytes)
          /\ pc'[r] = "readBody"
                => /\ calls'[r].containerFetch = 0
                   /\ sent'[r] = NotCalled
      ]_vars

\* A POST whose body was buffered and handed to the upstream call, beside
\* a GET called with null.
C23_Witness ==
    \E r1, r2 \in Reqs :
        /\ pc[r1] = "awaitFetch" /\ req[r1].body = Stream(<<7, 8>>)
        /\ sent[r1].body = Bytes(<<7, 8>>)
        /\ pc[r2] = "awaitFetch" /\ req[r2].body = NullBody
        /\ sent[r2].body = NullBody

\* The header names of a response built by buildErrorResponse.
ErrorHeaderNames ==
    {"content-type", "x-request-id", "x-powered-by", "x-app-version"}

\* C24: the client has no response while the upstream's body is awaited or
\* drained; when the drain ends, the client receives either the upstream's
\* status with the complete body, or an error response of the program; and
\* when the drain fails the response is 502 CONTAINER_FETCH_ERROR, a JSON
\* body under the error headers alone, nothing of the upstream's status and
\* headers.
C24_NoPartialResponse ==
    [][\A r \in Reqs :
          /\ pc'[r] \in {"awaitFetch", "drain"} => resp'[r] = NoResponse
          /\ (pc[r] = "drain" /\ pc'[r] # "drain")
                => \/ /\ served'[r] = [by |-> "proxy", as |-> "relay"]
                      /\ resp'[r].status = upResp[r].status
                      /\ resp'[r].body = upResp[r].body
                   \/ /\ served'[r] = [by |-> "proxy", as |-> "error"]
                      /\ fault'[r].point \in {"drain", "construct"}
          /\ (pc[r] = "drain" /\ fault'[r].point = "drain")
                => /\ IsJsonError(resp'[r])
                   /\ resp'[r].status = 502
                   /\ CodeOf(resp'[r]) = "CONTAINER_FETCH_ERROR"
                   /\ DOMAIN resp'[r].headers = ErrorHeaderNames
                   /\ resp'[r].headers["content-type"] = "application/json"
      ]_vars

\* A drain that failed after an upstream response with headers of its own
\* had been received.
C24_Witness ==
    \E r \in Reqs :
        /\ Done(r) /\ fault[r].point = "drain"
        /\ resp[r].status = 502 /\ IsJsonError(resp[r])
        /\ "etag" \notin DOMAIN resp[r].headers
        /\ received[r] = NoResponse

\* C25: the timer of a request is unset until the request body is buffered
\* and is armed exactly while containerFetch is pending; it is cleared in
\* the step in which the call settles, resolved or rejected; it fires only
\* from the armed state, while the call is pending, and once fired or
\* cleared it stays so: never armed or firing during the body read, during
\* the drain or after the response was returned.
C25_TimerLifetime ==
    [][\A r \in Reqs :
          /\ (timer'[r] = "armed") <=> (pc'[r] = "awaitFetch")
          /\ pc'[r] \in {"idle", "delegated", "readBody"}
                => timer'[r] = "unset"
          /\ pc'[r] = "drain" => timer'[r] = "cleared"
          /\ (timer[r] = "unset" /\ timer'[r] # "unset")
                => /\ timer'[r] = "armed"
                   /\ pc[r] \in {"delegated", "readBody"}
                   /\ pc[r] = "delegated" => req[r].body.kind = "null"
                   /\ deadline'[r] = now + CONTAINER_TIMEOUT_MS
          /\ (timer[r] = "armed" /\ timer'[r] # "armed")
                => /\ pc[r] = "awaitFetch"
                   /\ \/ /\ timer'[r] = "cleared"
                         /\ \/ pc'[r] = "drain"
                            \/ fault'[r].point = "upstreamCall"
                      \/ /\ timer'[r] = "fired"
                         /\ now >= deadline[r]
                         /\ fault'[r].point = "timeout"
          /\ timer[r] \in {"fired", "cleared"} => timer'[r] = timer[r]
      ]_vars

\* A timer cleared when the call succeeded, beside one cleared when it
\* failed.
C25_Witness ==
    \E r1, r2 \in Reqs :
        /\ timer[r1] = "cleared" /\ pc[r1] = "drain"
        /\ timer[r2] = "cleared" /\ fault[r2].point = "upstreamCall"
        /\ Done(r2)

\* The response is this program's timeout error.
IsTimeoutResponse(response) ==
    /\ IsJsonError(response)
    /\ response.status = 504
    /\ CodeOf(response) = "CONTAINER_TIMEOUT"

\* C26: a request is answered 504 CONTAINER_TIMEOUT only if its own timer
\* fired; a failure of the body read, of the upstream call, of the drain or
\* of the construction of the response, met with the timer not fired, is
\* never answered as a timeout.
C26_TimeoutOnlyIfFired ==
    \A r \in Reqs :
        /\ (Done(r) /\ IsTimeoutResponse(resp[r]))
              => /\ timer[r] = "fired"
                 /\ aborted[r]
                 /\ fault[r].point = "timeout"
        /\ (Done(r) /\ timer[r] # "fired" /\ fault[r].point # "none")
              => /\ ~IsTimeoutResponse(resp[r])
                 /\ \A i \in 1..Len(logs[r]) : logs[r][i].event # "TIMEOUT"

\* One request timed out while the other, whose timer did not fire, failed
\* for a reason of the upstream's.
C26_Witness ==
    \E r1, r2 \in Reqs :
        /\ Done(r1) /\ IsTimeoutResponse(resp[r1]) /\ timer[r1] = "fired"
        /\ Done(r2) /\ timer[r2] = "cleared"
        /\ fault[r2].point \in {"upstreamCall", "drain"}
        /\ resp[r2].status = 502

\* Everything the handlers hold for one request: their locals, the
\* request's timer and controller, its log lines and its response.
PerRequest(r) ==
    <<pc[r], req[r], wid[r], did[r], startTime[r], timer[r], deadline[r],
      aborted[r], upResp[r], received[r], resp[r], served[r], logs[r],
      calls[r], fault[r], sent[r], issued[r], target[r]>>

\* C27: a step of one request (the timeout and the failures included)
\* changes nothing of what the handlers hold for another request; and every
\* response carries the identifier generated for its own request and, if
\* relayed, the body of the upstream response to its own call.
C27_Independent ==
    [][\A r1, r2 \in Reqs :
          /\ (r1 # r2 /\ PerRequest(r1)' # PerRequest(r1))
                => PerRequest(r2)' = PerRequest(r2)
          /\ pc'[r1] = "done"
                => /\ resp'[r1].kind = "response"
                   /\ GetHeader(resp'[r1].headers, "X-Request-Id")
                        = generateRequestId(issued'[r1])
                   /\ served'[r1].as = "relay"
                        => resp'[r1].body = received'[r1].body
      ]_vars

\* One request timed out; the other, handled at the same time, was relayed
\* and not aborted.
C27_Witness ==
    \E r1, r2 \in Reqs :
        /\ Done(r1) /\ timer[r1] = "fired" /\ aborted[r1]
        /\ resp[r1].status = 504
        /\ Relayed(r2) /\ resp[r2].status = 200 /\ ~aborted[r2]
        /\ timer[r2] = "cleared"
        /\ sent[r2].body # sent[r1].body

\* C28: the call to the upstream has the inbound request's method, URL
\* (path and query), headers and body bytes, goes to port 9000 and does not
\* follow redirects; and the response to a request whose upstream answered
\* 3xx has that status and that Location header.
C28_ForwardedUnchanged ==
    \A r \in Reqs :
        /\ sent[r] # NotCalled
              => /\ sent[r].method = req[r].method
                 /\ sent[r].url = req[r].url
                 /\ sent[r].headers = req[r].headers
                 /\ IF req[r].body.kind = "null"
                    THEN sent[r].body = NullBody
                    ELSE sent[r].body = Bytes(req[r].body.bytes)
                 /\ sent[r].port = 9000
                 /\ sent[r].redirect = "manual"
        /\ (Done(r) /\ received[r].kind = "response"
                    /\ received[r].status \in 300..399)
              => /\ resp[r].status = received[r].status
                 /\ HasHeader(received[r].headers, "Location")
                       => /\ HasHeader(resp[r].headers, "Location")
                          /\ GetHeader(resp[r].headers, "Location")
                                = GetHeader(received[r].headers, "Location")

\* A POST with a query string was forwarded and the upstream's redirect
\* came back as it was.
C28_RedirectRelayed ==
    \E r \in Reqs :
        /\ Relayed(r) /\ resp[r].status = 302
        /\ GetHeader(resp[r].headers, "Location") = "/admin/login"
        /\ sent[r].method = "POST" /\ sent[r].url.search = "?page=2"
        /\ sent[r].body = Bytes(<<7, 8>>)

\* C29: when a handler returns a response, an error response's body
\* request_id is its X-Request-Id header and the identifier of the error
\* line just logged; a response returned by ListmonkContainer.fetch (error
\* or relay) has the identifier of ListmonkContainer.fetch and not the
\* Worker's; a response built by the Worker has the Worker's identifier.
C29_OneIdentifier ==
    [][\A r \in Reqs :
          (pc[r] # "done" /\ pc'[r] = "done"
              /\ served'[r].by \in {"proxy", "router"})
          => LET id == GetHeader(resp'[r].headers, "X-Request-Id")
                 n == Len(logs'[r])
             IN /\ served'[r].as = "error"
                      => /\ resp'[r].body.kind = "json"
                         /\ resp'[r].body.value.request_id = JStr(id)
                         /\ n >= 1
                         /\ logs'[r][n].level = "error"
                         /\ logs'[r][n].rid = id
                /\ served'[r].by = "proxy"
                      => /\ id = did[r]
                         /\ id = logs'[r][1].rid
                         /\ wid[r] # did[r] => id # wid[r]
                /\ served'[r].by = "router"
                      => id = IF pc[r] = "idle"
                              THEN generateRequestId(issued'[r])
                              ELSE wid[r]
      ]_vars

\* A timeout answered by ListmonkContainer.fetch under its own identifier,
\* which differs from the Worker's; and a relayed response whose upstream
\* had sent an X-Request-Id of its own.
C29_Witness ==
    \E r1, r2 \in Reqs :
        /\ served[r1] = [by |-> "proxy", as |-> "error"]
        /\ resp[r1].status = 504
        /\ resp[r1].body.value.request_id = JStr(ResponseId(r1))
        /\ logs[r1][Len(logs[r1])].rid = ResponseId(r1)
        /\ Relayed(r2)
        /\ HasHeader(received[r2].headers, "X-Request-Id")
        /\ ResponseId(r2) = LoggedId(r2)
        /\ ResponseId(r2) # GetHeader(received[r2].headers, "X-Request-Id")

\* The place of a step in the documented boot sequence.
StepRank(step) ==
    CASE step = "apk" -> 1
      [] step = "install" -> 2
      [] step = "psql" -> 3
      [] step = "listmonk" -> 4

\* C30: in every boot the steps that run do so in the order apk add,
\* listmonk --install, psql, listmonk; Listmonk is started only if the
\* UPDATE of this boot succeeded and set app.root_url to https://APP_DOMAIN;
\* and when the migration failed, the script still went on to psql.
C30_BootOrder ==
    /\ \A i, j \in 1..Len(boot.ran) :
          i < j => StepRank(boot.ran[i]) < StepRank(boot.ran[j])
    /\ boot.phase = "listmonk"
          => /\ boot.updated
             /\ boot.db.root_url
                  = [from |-> "printf",
                     url |-> Template("https://", config.APP_DOMAIN)]
    /\ (boot.install = "failed" /\ boot.phase \in {"listmonk", "exited"})
          => \E i \in 1..Len(boot.ran) : boot.ran[i] = "psql"

====
